---- MODULE Spec2Model ----
(***************************************************************************)
(* The real-time conversation session engine of the language-learning      *)
(* backend: app/api/websockets/conversation.py, with the parts of          *)
(* app/main.py, app/services/chat.py and app/services/language_learning.py *)
(* it calls.  One handler instance (websocket_conversation_endpoint) runs  *)
(* per connection; the instances share the process-wide ConnectionManager  *)
(* and the database collections.                                           *)
(***************************************************************************)
EXTENDS Integers, Sequences, FiniteSets, TLC

None == "None"

\* ------------------------------------------------------------------ bounds
\* Client frames (and receive timeouts) delivered over all connections.
MaxFrames == 2
\* Longest text of a voice_input frame.
MaxTextLen == 1

\* ------------------------------------------------------- the environment
\* Connections (transport handles) that can be opened during a run.
Conns == {1, 2}
\* The documents of the User collection, and those with is_active = True.
Users == {"u1", "u2"}
ActiveUsers == {"u1"}

\* Characters of a client text: one whitespace character, one other.
Chars == {" ", "a"}
Whitespace == {" "}

RECURSIVE SeqsUpTo(_, _)
SeqsUpTo(S, n) ==
    IF n = 0 THEN {<<>>}
    ELSE LET shorter == SeqsUpTo(S, n - 1)
         IN  shorter \cup {Append(s, x) : s \in shorter, x \in S}

Texts == SeqsUpTo(Chars, MaxTextLen)

\* The tokens a client can present: no token, a token jwt.decode rejects,
\* a token without "sub", a token naming no user, and a token per user.
NoToken == [sig |-> "none", sub |-> None]
Tokens ==
    {NoToken, [sig |-> "bad", sub |-> "u1"], [sig |-> "ok", sub |-> None],
     [sig |-> "ok", sub |-> "ghost"]}
    \cup {[sig |-> "ok", sub |-> u] : u \in Users}

Languages == {"fr"}

\* Session ids: sessions 1 and 2 exist initially, the others are created
\* by connections opened without a session_id (one per connection at most).
InitialSessions == {1, 2}
SessionIds == 1 .. (Cardinality(InitialSessions) + Cardinality(Conns))
\* session_id = None, and the text of a frame that has no "text" key.
NoSession == 0
MissingText == <<"missing">>
\* scenario_context = None.
NoContext == [title |-> None, role |-> None, summary |-> None]
NoResult == [content |-> <<>>, usage |-> [prompt_tokens |-> 0, completion_tokens |-> 0, total_tokens |-> 0],
             model |-> None]

\* Scenario references (scenario_id, scenario_type) a client can pass: none,
\* for each type a known reference of each owner and an unknown one, and a
\* type that is none of the three.
NoScenario == [id |-> None, type |-> None]
AllScenarioRefs ==
    {NoScenario,
     [id |-> "job_interview", type |-> "predefined"],
     [id |-> "unknown", type |-> "predefined"],
     [id |-> "meeting_m1", type |-> "meeting"],
     [id |-> "meeting_m2", type |-> "meeting"],
     [id |-> "meeting_m9", type |-> "meeting"],
     [id |-> "custom_p1", type |-> "custom"],
     [id |-> "custom_p2", type |-> "custom"],
     [id |-> "custom_p9", type |-> "custom"],
     [id |-> "job_interview", type |-> "roleplay"]}
\* The references drawn where the whole loop is explored.
ScenarioRefs ==
    {r \in AllScenarioRefs : r.id \in {None, "job_interview", "custom_p9"}
                              /\ r.type \in {None, "predefined", "custom"}}

\* What the LLM provider can return for one generate call: the text, the
\* usage triple and the model name of the API's response.
ProviderOutputs ==
    {[content |-> <<"r1">>, model |-> "gpt",
      usage |-> [prompt_tokens |-> 1, completion_tokens |-> 1, total_tokens |-> 2]],
     [content |-> <<"r2">>, model |-> "gpt",
      usage |-> [prompt_tokens |-> 2, completion_tokens |-> 1, total_tokens |-> 3]]}

\* What it can return for the one call of a conversation analysis.
AnalysisOutputs == {o \in ProviderOutputs : o.content = <<"r1">>}

\* How a send behaves once the client has gone away; it depends on the
\* installed Starlette/ASGI server: the frame is silently dropped, the send
\* raises WebSocketDisconnect, or it raises another exception.
SendModes == {"drop", "WebSocketDisconnect", "Exception"}

\* The "type" values of client events that have a branch of their own, and
\* one that has none.
KnownTypes == {"voice_input", "ping", "analyze_conversation", "end_conversation"}
UnknownTypes == {"typing"}


\* ------------------------------------------------------------- variables
VARIABLES
    \* process-wide and persisted state
    active_connections, \* ConnectionManager.active_connections, as (key, value) pairs
    sessions,           \* the ChatSession collection
    messages,           \* the ChatMessage collection, in insertion (timestamp) order
    usage,              \* the TokenUsage collection, in insertion order
    feedbacks,          \* sessions with a stored ConversationFeedback
    \* the environment
    sendMode,           \* how a send to a vanished client behaves in this deployment
    frames,             \* client frames and timeouts delivered so far
    peer,               \* per connection: is the client still there
    \* one handler instance per connection
    pc,                 \* where the handler is
    token,              \* the token argument
    language,           \* the language argument
    scenario_ref,       \* the scenario_id and scenario_type arguments
    user,               \* the authenticated User, or None
    session,            \* the id of the ChatSession in use, or None
    scenario_context,   \* the resolved descriptor, or None
    history_dicts,      \* the in-memory transcript
    enhanced_history,   \* the chat history handed to the agent for the current input
    user_text,          \* the stripped text of the voice_input being processed
    result,             \* what chat_agent.chat returned for it
    agent_messages,     \* the messages of the provider call in flight (<<>>: none)
    app_state,          \* the transport as the server sees it
    close_code,         \* the code of the close the server issued (0: none)
    sent,               \* the events emitted to the client, in order
    \* history variables, for stating properties
    last,               \* the client frame the loop took last
    turn,               \* the number of frames the loop has taken
    registered,         \* ConnectionManager.connect has succeeded for the connection
    raised,             \* an exception left websocket_conversation_endpoint
    exit,               \* why the handler stopped ("": it has not)
    asked               \* what the session_id argument named when it was looked up

shared == <<active_connections, sessions, messages, usage, feedbacks>>
env == <<sendMode, frames, peer>>
locals == <<pc, token, language, scenario_ref, user, session, scenario_context, history_dicts,
            enhanced_history, user_text, result, agent_messages>>
transport == <<app_state, close_code, sent>>
ghost == <<last, turn, registered, raised, exit, asked>>
vars == <<shared, env, locals, transport, ghost>>

\* --------------------------------------------------------- pure helpers
\* The leading/trailing whitespace removal of str.strip().
RECURSIVE LStrip(_)
LStrip(s) == IF s # <<>> /\ Head(s) \in Whitespace THEN LStrip(Tail(s)) ELSE s

RECURSIVE RStrip(_)
RStrip(s) ==
    IF s # <<>> /\ s[Len(s)] \in Whitespace THEN RStrip(SubSeq(s, 1, Len(s) - 1)) ELSE s

MutStripNothing(s) == s
Strip(s) == RStrip(LStrip(s))

\* data.get("text", ""): the text of a voice_input frame, "" when it has none.
TextOf(frame) == IF frame.text = MissingText THEN <<>> ELSE frame.text

Ev(t) == [type |-> t, text |-> <<>>]
AssistantEv(content) == [type |-> "assistant_message", text |-> content]
\* The error event of the final else branch, which quotes data["type"].
UnknownTypeEv(kind) == [type |-> "error", text |-> <<"Unknown message type: ", kind>>]

CountType(evs, t) == Cardinality({i \in 1 .. Len(evs) : evs[i].type = t})
CountRole(hist, r) == Cardinality({i \in 1 .. Len(hist) : hist[i].role = r})

\* jwt.decode followed by the user lookup.
MutGetUserUnverified(tok) ==
    IF tok.sub = None THEN None
    ELSE IF tok.sub \in Users THEN tok.sub
    ELSE None

get_current_user_websocket(tok) ==
    IF tok.sig # "ok" THEN None              \* JWTError
    ELSE IF tok.sub = None THEN None         \* no "sub" in the payload
    ELSE IF tok.sub \in Users THEN tok.sub   \* User.find_one
    ELSE None

\* The predefined catalogue.
PredefinedScenarios ==
    [job_interview |-> [title |-> "Job Interview", role |-> "interviewer",
                        summary |-> "conducting a job interview"],
     restaurant |-> [title |-> "Restaurant Conversation", role |-> "restaurant server",
                     summary |-> "helping customer with menu and orders"],
     business_meeting |-> [title |-> "Business Meeting", role |-> "business colleague",
                           summary |-> "discussing project updates and collaboration"],
     travel |-> [title |-> "Travel & Tourism", role |-> "travel assistant",
                 summary |-> "helping traveler with information and bookings"],
     shopping |-> [title |-> "Shopping", role |-> "shop assistant",
                   summary |-> "helping customer find and purchase products"],
     doctor_visit |-> [title |-> "Doctor Visit", role |-> "doctor",
                       summary |-> "medical consultation with patient"]]

\* The PracticeScenario and MeetingAnalysis collections (id -> owner).
PracticeScenarios == [custom_p1 |-> "u1", custom_p2 |-> "u2"]
MeetingAnalyses == [meeting_m1 |-> "u1", meeting_m2 |-> "u2"]

\* get_scenario_context; dbok = FALSE: the lookup raises, which is caught.
MutGetScenarioContextAnyOwner(ref, u, dbok) ==
    IF ref.type = "predefined" THEN
        IF ref.id \in DOMAIN PredefinedScenarios THEN PredefinedScenarios[ref.id] ELSE NoContext
    ELSE IF ref.type = "meeting" THEN
        IF dbok /\ ref.id \in DOMAIN MeetingAnalyses
        THEN [title |-> ref.id, role |-> "meeting participant", summary |-> "meeting about"]
        ELSE NoContext
    ELSE IF ref.type = "custom" THEN
        IF ~dbok THEN NoContext
        ELSE IF ref.id \in DOMAIN PracticeScenarios
        THEN [title |-> ref.id, role |-> "custom role", summary |-> "custom description"]
        ELSE [title |-> "Custom Scenario", role |-> "conversation partner",
              summary |-> "custom practice scenario"]
    ELSE NoContext

get_scenario_context(ref, u, dbok) ==
    IF ref.type = "predefined" THEN
        IF ref.id \in DOMAIN PredefinedScenarios THEN PredefinedScenarios[ref.id] ELSE NoContext
    ELSE IF ref.type = "meeting" THEN
        IF ~dbok THEN NoContext
        ELSE IF ref.id \in DOMAIN MeetingAnalyses /\ MeetingAnalyses[ref.id] = u
        THEN [title |-> ref.id, role |-> "meeting participant", summary |-> "meeting about"]
        ELSE NoContext
    ELSE IF ref.type = "custom" THEN
        IF ~dbok THEN NoContext
        ELSE IF ref.id \in DOMAIN PracticeScenarios /\ PracticeScenarios[ref.id] = u
        THEN [title |-> ref.id, role |-> "custom role", summary |-> "custom description"]
        ELSE [title |-> "Custom Scenario", role |-> "conversation partner",
              summary |-> "custom practice scenario"]
    ELSE NoContext

\* The dict assignment of ConnectionManager.connect.
MutManagerConnect(reg, uid, ws) == reg \cup {[user_id |-> uid, ws |-> ws]}
ManagerConnect(reg, uid, ws) ==
    {e \in reg : e.user_id # uid} \cup {[user_id |-> uid, ws |-> ws]}

\* ConnectionManager.disconnect.
ManagerDisconnect(reg, uid) == {e \in reg : e.user_id # uid}

\* ChatService.get_session_messages with its default limit, as role/content.
HistoryLimit == 100
get_session_messages(msgs, sid) ==
    LET idx == {i \in 1 .. Len(msgs) : msgs[i].session = sid}
        RECURSIVE Pick(_, _)
        Pick(i, acc) ==
            IF i > Len(msgs) \/ Len(acc) >= HistoryLimit THEN acc
            ELSE Pick(i + 1, IF i \in idx
                             THEN Append(acc, [role |-> msgs[i].role, content |-> msgs[i].content])
                             ELSE acc)
    IN  Pick(1, <<>>)

SessionDoc(sid) == CHOOSE s \in sessions : s.id = sid
SessionExists(sid) == \E s \in sessions : s.id = sid
NewSessionId == CHOOSE i \in SessionIds :
                    /\ ~SessionExists(i)
                    /\ \A j \in SessionIds : j < i => SessionExists(j)


\* -------------------------------------------------------- the transport
\* The handler's view of its transport while one step runs: the state of
\* the socket, what was emitted, the close code, the exception being raised
\* (None: none), the registry, and whether an exception left the endpoint.
St(c) == [app |-> app_state[c], sent |-> sent[c], code |-> close_code[c],
          exc |-> None, reg |-> active_connections, raised |-> raised[c]]

\* websocket.accept(): gone says the client has left already.
Accept(st, gone) ==
    IF st.app # "CONNECTING" THEN [st EXCEPT !.exc = "Exception"]
    ELSE IF ~gone \/ sendMode = "drop" THEN [st EXCEPT !.app = "CONNECTED"]
    ELSE [st EXCEPT !.app = "CONNECTED", !.exc = "Exception"]

\* websocket.send_json(ev).
SendJson(st, gone, ev) ==
    IF st.app # "CONNECTED" THEN [st EXCEPT !.exc = "Exception"]
    ELSE IF ~gone \/ sendMode = "drop" THEN [st EXCEPT !.sent = Append(@, ev)]
    ELSE IF sendMode = "WebSocketDisconnect"
    THEN [st EXCEPT !.app = "DISCONNECTED", !.exc = "WebSocketDisconnect"]
    ELSE [st EXCEPT !.exc = "Exception"]

\* try: send_json(ev) / except: (log only).
TrySend(st, gone, ev) == [SendJson(st, gone, ev) EXCEPT !.exc = None]

\* websocket.close(code): raises on a transport the server has closed.
Close(st, gone, code) ==
    IF st.app = "DISCONNECTED" THEN [st EXCEPT !.exc = "Exception"]
    ELSE LET s1 == [st EXCEPT !.app = "DISCONNECTED", !.code = code]
         IN  IF ~gone \/ sendMode = "drop" THEN s1
             ELSE IF sendMode = "WebSocketDisconnect" /\ st.app = "CONNECTED"
             THEN [s1 EXCEPT !.exc = "WebSocketDisconnect"]
             ELSE [s1 EXCEPT !.exc = "Exception"]

\* The except clause of websocket_conversation in main.py.
MainHandler(st, gone) ==
    [Close([st EXCEPT !.raised = TRUE, !.exc = None], gone, 1011) EXCEPT !.exc = None]

\* The two outer except clauses of websocket_conversation_endpoint.
OuterExcept(st, gone, uid) ==
    IF st.exc = None THEN st
    ELSE IF st.exc = "WebSocketDisconnect"
    THEN [st EXCEPT !.reg = ManagerDisconnect(@, uid), !.exc = None]
    ELSE LET s1 == TrySend([st EXCEPT !.exc = None], gone, Ev("error"))
             s2 == Close(s1, gone, 1000)
         IN  IF s2.exc = None THEN s2 ELSE MainHandler(s2, gone)

\* The except clause of the authentication phase.
AuthExcept(st, gone) ==
    IF st.exc = None THEN st
    ELSE [Close([st EXCEPT !.exc = None], gone, 1011) EXCEPT !.exc = None]

\* Write a step's transport view back.
Commit(c, st) ==
    /\ app_state' = [app_state EXCEPT ![c] = st.app]
    /\ sent' = [sent EXCEPT ![c] = st.sent]
    /\ close_code' = [close_code EXCEPT ![c] = st.code]
    /\ raised' = [raised EXCEPT ![c] = st.raised]
    /\ active_connections' = st.reg

Gone(c) == peer[c] = "gone"


\* ------------------------------------------------------------ documents
\* Session.metadata: {} is NoMetadata.
NoScenarioMeta == [id |-> None, type |-> None, title |-> None,
                   description |-> None, role |-> None]
NoMetadata == [scenario |-> NoScenarioMeta, language |-> None]

\* conn and turn record which connection, handling which of its frames,
\* inserted the document (conn 0: it was there initially).
Message(sid, role, content, c, n) ==
    [session |-> sid, role |-> role, content |-> content, conn |-> c, turn |-> n]

MutUsageRecordTotalIsPrompt(sid, u, tokens, c, n, src) ==
    [session |-> sid, user |-> u, prompt_tokens |-> tokens.prompt_tokens,
     completion_tokens |-> tokens.completion_tokens,
     total_tokens |-> tokens.prompt_tokens, conn |-> c, turn |-> n, src |-> src]

UsageRecord(sid, u, tokens, c, n, src) ==
    [session |-> sid, user |-> u, prompt_tokens |-> tokens.prompt_tokens,
     completion_tokens |-> tokens.completion_tokens,
     total_tokens |-> tokens.total_tokens, conn |-> c, turn |-> n, src |-> src]

Frame(kind, text) == [kind |-> kind, text |-> text]

\* The number of the frame the handler of connection c is working on.
Turn(c) == turn[c]
NoFrame == Frame("", <<>>)

\* ----------------------------------------------------------------- Init
\* The ChatMessage collection holding n messages of session 1, user and
\* assistant turns alternating.
StoredLog(n) ==
    [i \in 1 .. n |-> IF i % 2 = 1 THEN Message(1, "user", <<"a">>, 0, 0)
                                   ELSE Message(1, "assistant", <<"r1">>, 0, 0)]

\* The state when the server has started and n messages are stored.
InitWith(n) ==
    /\ active_connections = {}
    /\ sessions = {[id |-> 1, user |-> "u1", metadata |-> NoMetadata],
                   [id |-> 2, user |-> "u2", metadata |-> NoMetadata]}
    /\ messages = StoredLog(n)
    /\ usage = <<>>
    /\ feedbacks = {}
    /\ sendMode \in SendModes
    /\ frames = 0
    /\ peer = [c \in Conns |-> "present"]
    /\ pc = [c \in Conns |-> "idle"]
    /\ token = [c \in Conns |-> NoToken]
    /\ language = [c \in Conns |-> "en"]
    /\ scenario_ref = [c \in Conns |-> NoScenario]
    /\ user = [c \in Conns |-> None]
    /\ session = [c \in Conns |-> NoSession]
    /\ scenario_context = [c \in Conns |-> NoContext]
    /\ history_dicts = [c \in Conns |-> <<>>]
    /\ enhanced_history = [c \in Conns |-> <<>>]
    /\ agent_messages = [c \in Conns |-> <<>>]
    /\ user_text = [c \in Conns |-> <<>>]
    /\ result = [c \in Conns |-> NoResult]
    /\ app_state = [c \in Conns |-> "CONNECTING"]
    /\ close_code = [c \in Conns |-> 0]
    /\ sent = [c \in Conns |-> <<>>]
    /\ last = [c \in Conns |-> NoFrame]
    /\ turn = [c \in Conns |-> 0]
    /\ registered = [c \in Conns |-> FALSE]
    /\ raised = [c \in Conns |-> FALSE]
    /\ exit = [c \in Conns |-> ""]
    /\ asked = [c \in Conns |-> ""]

\* One exchange is stored.
InitialLog == 2
Init == InitWith(InitialLog)

\* ------------------------------------------------ connection establishment
\* websocket_conversation_endpoint up to manager.connect (the first try
\* block): a client opens connection c with token tok; present = FALSE: it
\* has left before the handshake completes; dbok = FALSE: User.count()
\* raises.  Connections are opened in the order of their numbers, the next
\* one once the one before is registered (a connection refused here shares
\* no state with the others).
Connect(c, tok, present, dbok) ==
    /\ pc[c] = "idle"
    /\ \A d \in Conns : d < c => registered[d]
    /\ LET gone == ~present
           st0 == St(c)
           u == get_current_user_websocket(tok)
           authed == tok # NoToken /\ dbok /\ u # None
           st1 == IF tok = NoToken THEN Close(st0, gone, 1008)
                  ELSE IF ~dbok THEN Close(st0, gone, 1011)
                  ELSE IF u = None THEN Close(st0, gone, 1008)
                  ELSE LET s == Accept(st0, gone)
                       IN  IF s.exc = None
                           THEN [s EXCEPT !.reg = ManagerConnect(@, u, c)]
                           ELSE s
           ok == authed /\ st1.exc = None
           st2 == AuthExcept(st1, gone)
       IN  /\ Commit(c, st2)
           /\ peer' = [peer EXCEPT ![c] = IF present THEN "present" ELSE "gone"]
           /\ pc' = [pc EXCEPT ![c] = IF ok THEN "session" ELSE "done"]
           /\ exit' = [exit EXCEPT ![c] = IF ok THEN "" ELSE "auth_failed"]
           /\ token' = [token EXCEPT ![c] = tok]
           /\ user' = [user EXCEPT ![c] = IF ok THEN u ELSE None]
           /\ registered' = [registered EXCEPT ![c] = ok]
    /\ UNCHANGED <<sessions, messages, usage, feedbacks, sendMode, frames, language,
                   scenario_ref, session, scenario_context, history_dicts, enhanced_history,
                   agent_messages,
                   user_text, result, last, turn, asked>>

\* The client of connection c goes away.
ClientDisconnect(c) ==
    /\ pc[c] \notin {"idle", "done"}
    /\ peer[c] = "present"
    /\ peer' = [peer EXCEPT ![c] = "gone"]
    /\ UNCHANGED <<shared, sendMode, frames, locals, transport, ghost>>

\* The metadata of a session created for scenario reference ref resolved to
\* ctx, in language lang.
SessionMetadata(ref, ctx, lang) ==
    IF ctx # NoContext
    THEN [scenario |-> [id |-> ref.id, type |-> ref.type, title |-> ctx.title,
                        description |-> ctx.summary, role |-> ctx.role],
          language |-> lang]
    ELSE NoMetadata

\* The session step up to its first event: an unknown or foreign session_id
\* is answered with an error event and a close; otherwise session_resumed
\* or session_created is emitted.  dbok = FALSE: the database call raises.
MutSessionRefusedNoOwnerCheck(resume, found, owned) == resume /\ ~found
SessionRefused(resume, found, owned) == resume /\ ~(found /\ owned)

MutSessionStepNoEvent(st, gone, dbok, resume, found, owned) ==
    IF ~dbok THEN [st EXCEPT !.exc = "Exception"]
    ELSE IF SessionRefused(resume, found, owned) THEN
        LET s == SendJson(st, gone, Ev("error"))
        IN  IF s.exc = None THEN Close(s, gone, 1008) ELSE s
    ELSE IF resume THEN st
    ELSE SendJson(st, gone, Ev("session_created"))

SessionStep(st, gone, dbok, resume, found, owned) ==
    IF ~dbok THEN [st EXCEPT !.exc = "Exception"]
    ELSE IF SessionRefused(resume, found, owned) THEN
        LET s == SendJson(st, gone, Ev("error"))
        IN  IF s.exc = None THEN Close(s, gone, 1008) ELSE s
    ELSE SendJson(st, gone, Ev(IF resume THEN "session_resumed" ELSE "session_created"))

\* From manager.connect to the "ready" event: scenario resolution, then the
\* session is resumed or created and its history loaded.  The arguments
\* other than the token are first read here, so the model draws them here:
\* language lang, session_id sid0, scenario reference ref.  dbok = FALSE:
\* the first database call of the session step raises; scok = FALSE: the
\* scenario lookup raises.
ResolveSession(c, lang, sid0, ref, dbok, scok) ==
    /\ pc[c] = "session"
    /\ LET u == user[c]
           gone == Gone(c)
           ctx == IF ref.id # None /\ ref.type # None
                  THEN get_scenario_context(ref, u, scok)
                  ELSE NoContext
           resume == sid0 # NoSession
           found == resume /\ SessionExists(sid0)
           owned == found /\ SessionDoc(sid0).user = u
           sid == IF resume THEN sid0 ELSE NewSessionId
           st1 == SessionStep(St(c), gone, dbok, resume, found, owned)
           created == dbok /\ ~resume
           attached == dbok /\ st1.app = "CONNECTED" /\ st1.exc = None
           hist == IF attached THEN get_session_messages(messages, sid) ELSE <<>>
           st2 == IF attached THEN SendJson(st1, gone, Ev("ready")) ELSE st1
           ready == attached /\ st2.exc = None
       IN  /\ Commit(c, OuterExcept(st2, gone, u))
           /\ language' = [language EXCEPT ![c] = IF ready THEN lang ELSE "en"]
           /\ scenario_ref' = [scenario_ref EXCEPT ![c] = IF ready THEN ref ELSE NoScenario]
           /\ scenario_context' =
                  [scenario_context EXCEPT ![c] = IF ready THEN ctx ELSE NoContext]
           /\ sessions' = IF created
                          THEN sessions \cup
                               {[id |-> sid, user |-> u,
                                 metadata |-> SessionMetadata(ref, ctx, lang)]}
                          ELSE sessions
           /\ session' = [session EXCEPT ![c] = IF attached \/ created THEN sid ELSE NoSession]
           /\ history_dicts' = [history_dicts EXCEPT ![c] = hist]
           /\ pc' = [pc EXCEPT ![c] = IF ready THEN "recv" ELSE "done"]
           /\ exit' = [exit EXCEPT ![c] =
                          IF ready THEN ""
                          ELSE IF ~dbok THEN "db_error"
                          ELSE IF st2.exc = None THEN "session_refused"
                          ELSE "send_failed"]
           /\ asked' = [asked EXCEPT ![c] =
                           IF ~resume THEN "none"
                           ELSE IF ~found THEN "missing"
                           ELSE IF owned THEN "own" ELSE "foreign"]
    /\ UNCHANGED <<messages, usage, feedbacks, env, token, user, enhanced_history, agent_messages,
                   user_text, result, last, turn, registered>>

\* ------------------------------------------------------ the active loop
\* ChatAgent.process_input: the messages for the provider are the role and
\* content of every history entry, then the input as a user message.
MutProcessInputHistoryOnly(user_input, chat_history) ==
    [i \in 1..Len(chat_history) |->
        [role |-> chat_history[i].role, content |-> chat_history[i].content]]

process_input(user_input, chat_history) ==
    [i \in 1..Len(chat_history) |->
        [role |-> chat_history[i].role, content |-> chat_history[i].content]]
    \o <<[role |-> "user", content |-> user_input]>>

\* ChatAgent.chat, given the provider's response to its one generate call:
\* the text, usage and model of the response.
chat(response) ==
    [content |-> response.content, usage |-> response.usage, model |-> response.model]

\* The loop takes the next frame (or timeout) of connection c.
Take(c, frame) ==
    /\ pc[c] = "recv"
    /\ frames < MaxFrames
    /\ frames' = frames + 1
    /\ last' = [last EXCEPT ![c] = frame]
    /\ turn' = [turn EXCEPT ![c] = @ + 1]

\* The handler goes on to npc, inside the loop, with transcript hist.  The
\* locals of the voice_input branch are dead at the receive-wait (assigned
\* again before they are next read) and are reset there.
Goto(c, npc, hist, enh, text, res) ==
    /\ pc' = [pc EXCEPT ![c] = npc]
    /\ history_dicts' = [history_dicts EXCEPT ![c] = hist]
    /\ enhanced_history' = [enhanced_history EXCEPT ![c] = IF npc = "recv" THEN <<>> ELSE enh]
    /\ user_text' = [user_text EXCEPT ![c] = IF npc = "recv" THEN <<>> ELSE text]
    /\ result' = [result EXCEPT ![c] = IF npc = "recv" THEN NoResult ELSE res]
    /\ agent_messages' = [agent_messages EXCEPT ![c] =
                              IF npc = "agent" THEN process_input(text, enh) ELSE <<>>]
    /\ UNCHANGED <<language, scenario_ref, scenario_context, exit>>

\* The next iteration: back to the receive-wait.
Continue(c) ==
    Goto(c, "recv", history_dicts[c], <<>>, <<>>, NoResult)

\* break, or an exception caught by the outer except clauses: the handler
\* returns by path why.  All its locals are dead.
Leave(c, why) ==
    /\ pc' = [pc EXCEPT ![c] = "done"]
    /\ exit' = [exit EXCEPT ![c] = why]
    /\ history_dicts' = [history_dicts EXCEPT ![c] = <<>>]
    /\ language' = [language EXCEPT ![c] = "en"]
    /\ scenario_ref' = [scenario_ref EXCEPT ![c] = NoScenario]
    /\ scenario_context' = [scenario_context EXCEPT ![c] = NoContext]
    /\ enhanced_history' = [enhanced_history EXCEPT ![c] = <<>>]
    /\ agent_messages' = [agent_messages EXCEPT ![c] = <<>>]
    /\ user_text' = [user_text EXCEPT ![c] = <<>>]
    /\ result' = [result EXCEPT ![c] = NoResult]

\* message["type"] == "websocket.disconnect": break.
RecvDisconnect(c) ==
    /\ pc[c] = "recv"
    /\ Gone(c)
    /\ last' = [last EXCEPT ![c] = Frame("disconnect", <<>>)]
    /\ turn' = [turn EXCEPT ![c] = @ + 1]
    /\ Leave(c, "client_disconnect")
    /\ UNCHANGED <<shared, env, token, user, session, transport, registered, raised, asked>>

\* asyncio.TimeoutError: a keepalive is sent; break if that fails.
MutRecvTimeoutStays(c) ==
    /\ Take(c, Frame("timeout", <<>>))
    /\ Commit(c, TrySend(St(c), Gone(c), Ev("keepalive")))
    /\ Continue(c)
    /\ UNCHANGED <<sessions, messages, usage, feedbacks, sendMode, peer, token, user,
                   session, registered, asked>>

RecvTimeout(c) ==
    /\ Take(c, Frame("timeout", <<>>))
    /\ LET st == SendJson(St(c), Gone(c), Ev("keepalive"))
       IN  /\ Commit(c, [st EXCEPT !.exc = None])
           /\ IF st.exc = None THEN Continue(c) ELSE Leave(c, "keepalive_failed")
    /\ UNCHANGED <<sessions, messages, usage, feedbacks, sendMode, peer, token, user,
                   session, registered, asked>>

\* websocket.receive() raises: break.
RecvError(c) ==
    /\ Take(c, Frame("recv_error", <<>>))
    /\ Leave(c, "receive_error")
    /\ UNCHANGED <<shared, sendMode, peer, token, user, session, transport,
                   registered, raised, asked>>

\* A frame without "text": continue.
RecvBytes(c) ==
    /\ Take(c, Frame("bytes", <<>>))
    /\ Continue(c)
    /\ UNCHANGED <<shared, sendMode, peer, token, user, session, transport,
                   registered, raised, asked>>

\* json.loads fails: an error event is tried, continue.
RecvInvalidJson(c) ==
    /\ Take(c, Frame("invalid_json", <<>>))
    /\ Commit(c, TrySend(St(c), Gone(c), Ev("error")))
    /\ Continue(c)
    /\ UNCHANGED <<sessions, messages, usage, feedbacks, sendMode, peer, token, user,
                   session, registered, asked>>

\* Valid JSON that is no object, or an object without "type": data["type"]
\* raises outside every inner try, so the outer except clause runs.  So it
\* does for a voice_input whose "text" is no string ("bad_text"), where
\* .strip() raises.
MalformedKinds == {"non_object", "no_type", "bad_text"}
RecvMalformed(c, kind) ==
    /\ Take(c, Frame(kind, <<>>))
    /\ LET st == [St(c) EXCEPT !.exc = "Exception"]
       IN  Commit(c, OuterExcept(st, Gone(c), user[c]))
    /\ Leave(c, "malformed_event")
    /\ UNCHANGED <<sessions, messages, usage, feedbacks, sendMode, peer, token, user,
                   session, registered, asked>>

\* The history handed to the agent: the transcript, with the scenario's
\* system message put first when the transcript has no system message.
SystemMessage(ctx, lang) ==
    [role |-> "system", content |-> <<"system prompt", ctx.role, ctx.summary, lang>>]

MutEnhancedHistoryFirstOnly(hist, ctx, lang) ==
    IF ctx # NoContext /\ hist = <<>>
    THEN <<SystemMessage(ctx, lang)>> \o hist
    ELSE hist

EnhancedHistory(hist, ctx, lang) ==
    IF ctx # NoContext /\ CountRole(hist, "system") = 0
    THEN <<SystemMessage(ctx, lang)>> \o hist
    ELSE hist

\* {"type": "voice_input"}: an empty text is only logged; otherwise the
\* history for the agent is built and chat_agent.chat is called, which
\* calls the provider's generate with the messages of process_input.
RecvVoice(c, text) ==
    /\ Take(c, Frame("voice_input", text))
    /\ LET stripped == Strip(TextOf(Frame("voice_input", text)))
       IN  IF stripped = <<>>
           THEN Continue(c)
           ELSE Goto(c, "agent", history_dicts[c],
                     EnhancedHistory(history_dicts[c], scenario_context[c], language[c]),
                     stripped, NoResult)
    /\ UNCHANGED <<shared, sendMode, peer, token, user, session, transport,
                   registered, raised, asked>>

\* except Exception of the voice_input branch: an error event is tried.
MutVoiceFailedSilent(c, st) ==
    /\ Commit(c, [st EXCEPT !.exc = None])
    /\ Continue(c)

VoiceFailed(c, st) ==
    /\ Commit(c, TrySend([st EXCEPT !.exc = None], Gone(c), Ev("error")))
    /\ Continue(c)

\* The provider's generate returns out and chat_agent.chat returns, or it
\* raises and so does chat (ok = FALSE).
AgentReturn(c, ok, out) ==
    /\ pc[c] = "agent"
    /\ IF ok
       THEN /\ Goto(c, "save_user", history_dicts[c], enhanced_history[c], user_text[c],
                    chat(out))
            /\ UNCHANGED <<transport, raised, active_connections>>
       ELSE VoiceFailed(c, St(c))
    /\ UNCHANGED <<sessions, messages, usage, feedbacks, env, token, user, session,
                   last, turn, registered, asked>>

\* user_message.insert().
SaveUser(c, ok) ==
    /\ pc[c] = "save_user"
    /\ IF ok
       THEN /\ messages' = Append(messages,
                                  Message(session[c], "user", user_text[c], c, Turn(c)))
            /\ Goto(c, "save_assistant", history_dicts[c], enhanced_history[c],
                    user_text[c], result[c])
            /\ UNCHANGED <<transport, raised, active_connections>>
       ELSE /\ UNCHANGED messages
            /\ VoiceFailed(c, St(c))
    /\ UNCHANGED <<sessions, usage, feedbacks, env, token, user, session, last, turn, registered, asked>>

\* assistant_message.insert(), then both turns are appended to the transcript.
MutSaveAssistantSkipsUserTurn(c, ok) ==
    /\ pc[c] = "save_assistant"
    /\ IF ok
       THEN /\ messages' = Append(messages,
                                  Message(session[c], "assistant", result[c].content,
                                          c, Turn(c)))
            /\ Goto(c, "save_usage",
                    history_dicts[c] \o <<[role |-> "assistant", content |-> result[c].content]>>,
                    enhanced_history[c], user_text[c], result[c])
            /\ UNCHANGED <<transport, raised, active_connections>>
       ELSE /\ UNCHANGED messages
            /\ VoiceFailed(c, St(c))
    /\ UNCHANGED <<sessions, usage, feedbacks, env, token, user, session, last, turn, registered, asked>>

MutSaveAssistantFirst(c, ok) ==
    /\ pc[c] = "save_assistant"
    /\ IF ok
       THEN /\ messages' = <<Message(session[c], "assistant", result[c].content, c, Turn(c))>>
                           \o messages
            /\ Goto(c, "save_usage",
                    history_dicts[c] \o <<[role |-> "user", content |-> user_text[c]],
                                          [role |-> "assistant", content |-> result[c].content]>>,
                    enhanced_history[c], user_text[c], result[c])
            /\ UNCHANGED <<transport, raised, active_connections>>
       ELSE /\ UNCHANGED messages
            /\ VoiceFailed(c, St(c))
    /\ UNCHANGED <<sessions, usage, feedbacks, env, token, user, session, last, turn, registered, asked>>

SaveAssistant(c, ok) ==
    /\ pc[c] = "save_assistant"
    /\ IF ok
       THEN /\ messages' = Append(messages,
                                  Message(session[c], "assistant", result[c].content,
                                          c, Turn(c)))
            /\ Goto(c, "save_usage",
                    history_dicts[c] \o <<[role |-> "user", content |-> user_text[c]],
                                          [role |-> "assistant", content |-> result[c].content]>>,
                    enhanced_history[c], user_text[c], result[c])
            /\ UNCHANGED <<transport, raised, active_connections>>
       ELSE /\ UNCHANGED messages
            /\ VoiceFailed(c, St(c))
    /\ UNCHANGED <<sessions, usage, feedbacks, env, token, user, session, last, turn, registered, asked>>

\* token_usage.insert().
MutSaveUsageSkipped(c, ok) ==
    /\ pc[c] = "save_usage"
    /\ Goto(c, "send_reply", history_dicts[c], enhanced_history[c], user_text[c], result[c])
    /\ UNCHANGED <<shared, transport, raised, env, token, user, session, last, turn,
                   registered, asked>>

MutSaveUsageIgnoresFailure(c, ok) ==
    /\ pc[c] = "save_usage"
    /\ usage' = IF ok
                THEN Append(usage, UsageRecord(session[c], user[c], result[c].usage,
                                               c, Turn(c), "voice_input"))
                ELSE usage
    /\ Goto(c, "send_reply", history_dicts[c], enhanced_history[c], user_text[c], result[c])
    /\ UNCHANGED <<transport, raised, active_connections>>
    /\ UNCHANGED <<sessions, messages, feedbacks, env, token, user, session, last, turn,
                   registered, asked>>

SaveUsage(c, ok) ==
    /\ pc[c] = "save_usage"
    /\ IF ok
       THEN /\ usage' = Append(usage, UsageRecord(session[c], user[c], result[c].usage,
                                                  c, Turn(c), "voice_input"))
            /\ Goto(c, "send_reply", history_dicts[c], enhanced_history[c],
                    user_text[c], result[c])
            /\ UNCHANGED <<transport, raised, active_connections>>
       ELSE /\ UNCHANGED usage
            /\ VoiceFailed(c, St(c))
    /\ UNCHANGED <<sessions, messages, feedbacks, env, token, user, session, last, turn,
                   registered, asked>>

\* The assistant_message event; a failure is caught like the others.
SendReply(c) ==
    /\ pc[c] = "send_reply"
    /\ LET st == SendJson(St(c), Gone(c), AssistantEv(result[c].content))
       IN  IF st.exc = None
           THEN Commit(c, st) /\ Continue(c)
           ELSE VoiceFailed(c, st)
    /\ UNCHANGED <<sessions, messages, usage, feedbacks, env, token, user, session,
                   last, turn, registered, asked>>

\* {"type": "ping"}: a pong, sent outside every inner try.
MutRecvPingFallsThrough(c) ==
    /\ Take(c, Frame("ping", <<>>))
    /\ LET st == SendJson(St(c), Gone(c), Ev("pong"))
       IN  /\ Commit(c, IF st.exc = None THEN TrySend(st, Gone(c), Ev("error"))
                        ELSE OuterExcept(st, Gone(c), user[c]))
           /\ IF st.exc = None THEN Continue(c) ELSE Leave(c, "send_failed")
    /\ UNCHANGED <<sessions, messages, usage, feedbacks, sendMode, peer, token, user,
                   session, registered, asked>>

RecvPing(c) ==
    /\ Take(c, Frame("ping", <<>>))
    /\ LET st == SendJson(St(c), Gone(c), Ev("pong"))
       IN  /\ Commit(c, OuterExcept(st, Gone(c), user[c]))
           /\ IF st.exc = None THEN Continue(c) ELSE Leave(c, "send_failed")
    /\ UNCHANGED <<sessions, messages, usage, feedbacks, sendMode, peer, token, user,
                   session, registered, asked>>

\* An unknown "type": an error event is tried.
MutRecvUnknownSilent(c, kind) ==
    /\ kind \notin KnownTypes
    /\ Take(c, Frame(kind, <<>>))
    /\ Continue(c)
    /\ UNCHANGED <<shared, sendMode, peer, token, user, session, transport,
                   registered, raised, asked>>

RecvUnknown(c, kind) ==
    /\ kind \notin KnownTypes
    /\ Take(c, Frame(kind, <<>>))
    /\ Commit(c, TrySend(St(c), Gone(c), UnknownTypeEv(kind)))
    /\ Continue(c)
    /\ UNCHANGED <<sessions, messages, usage, feedbacks, sendMode, peer, token, user,
                   session, registered, asked>>

\* LanguageLearningService.analyze_conversation for connection c, with the
\* outcomes: "cached" (a recent feedback is returned), "feedback" (the agent
\* is called, its usage recorded and a feedback stored), "raise" (it raises
\* before the agent returns), "raise_late" (it raises after the usage record
\* is stored).
AnalysisOutcomes == {"cached", "feedback", "raise", "raise_late"}
AnalysisPossible(c, force, outcome) ==
    outcome = "cached" => (~force /\ session[c] \in feedbacks)
AnalysisOK(outcome) == outcome \in {"cached", "feedback"}
Analysis(c, outcome, tokens) ==
    /\ usage' = IF outcome \in {"feedback", "raise_late"}
                THEN Append(usage, UsageRecord(session[c], user[c], tokens, c, Turn(c),
                                               "analysis"))
                ELSE usage
    /\ feedbacks' = IF outcome = "feedback" THEN feedbacks \cup {session[c]} ELSE feedbacks

\* The try block around the analysis: the analysis event on success, an
\* error event (tried) when the analysis or the send raises.
AnalysisReport(st, gone, outcome) ==
    IF AnalysisOK(outcome)
    THEN LET s == SendJson(st, gone, Ev("analysis"))
         IN  IF s.exc = None THEN s ELSE TrySend([s EXCEPT !.exc = None], gone, Ev("error"))
    ELSE TrySend(st, gone, Ev("error"))

\* {"type": "analyze_conversation"}.  valid = FALSE: "force_reanalysis" is
\* no boolean, so building the ConversationAnalysisRequest raises, before
\* the try block is entered.
RecvAnalyze(c, valid, force, outcome, tokens) ==
    /\ Take(c, Frame("analyze_conversation", <<>>))
    /\ IF valid
       THEN /\ AnalysisPossible(c, force, outcome)
            /\ Analysis(c, outcome, tokens)
            /\ Commit(c, AnalysisReport(St(c), Gone(c), outcome))
            /\ Continue(c)
       ELSE /\ ~force /\ outcome = "raise"
            /\ UNCHANGED <<usage, feedbacks>>
            /\ Commit(c, OuterExcept([St(c) EXCEPT !.exc = "Exception"], Gone(c), user[c]))
            /\ Leave(c, "malformed_event")
    /\ UNCHANGED <<sessions, messages, sendMode, peer, token, user, session, registered, asked>>

\* {"type": "end_conversation"}: a forced analysis, then close and break.
MutRecvEndCloseInTry(c, outcome, tokens) ==
    /\ Take(c, Frame("end_conversation", <<>>))
    /\ AnalysisPossible(c, TRUE, outcome)
    /\ Analysis(c, outcome, tokens)
    /\ LET rep == AnalysisReport(St(c), Gone(c), outcome)
           st == IF AnalysisOK(outcome) THEN Close(rep, Gone(c), 1000) ELSE rep
       IN  /\ Commit(c, OuterExcept(st, Gone(c), user[c]))
           /\ Leave(c, "end_conversation")
    /\ UNCHANGED <<sessions, messages, sendMode, peer, token, user, session, registered,
                   asked>>

RecvEnd(c, outcome, tokens) ==
    /\ Take(c, Frame("end_conversation", <<>>))
    /\ AnalysisPossible(c, TRUE, outcome)
    /\ Analysis(c, outcome, tokens)
    /\ LET st == Close(AnalysisReport(St(c), Gone(c), outcome), Gone(c), 1000)
       IN  /\ Commit(c, OuterExcept(st, Gone(c), user[c]))
           /\ Leave(c, "end_conversation")
    /\ UNCHANGED <<sessions, messages, sendMode, peer, token, user, session, registered, asked>>

\* -------------------------------------------------------- specifications
\* One connection, with every input the handler distinguishes.
MainConns == {1}

Next ==
    \/ \E c \in MainConns, tok \in Tokens, present \in BOOLEAN, dbok \in BOOLEAN :
            Connect(c, tok, present, dbok)
    \/ \E c \in MainConns : ClientDisconnect(c)
    \/ \E c \in MainConns, lang \in Languages, sid \in {NoSession} \cup SessionIds,
          ref \in ScenarioRefs, dbok \in BOOLEAN, scok \in BOOLEAN :
            ResolveSession(c, lang, sid, ref, dbok, scok)
    \/ \E c \in MainConns : RecvDisconnect(c)
    \/ \E c \in MainConns : RecvTimeout(c)
    \/ \E c \in MainConns : RecvError(c)
    \/ \E c \in MainConns : RecvBytes(c)
    \/ \E c \in MainConns : RecvInvalidJson(c)
    \/ \E c \in MainConns, kind \in MalformedKinds : RecvMalformed(c, kind)
    \/ \E c \in MainConns, text \in Texts \cup {MissingText} : RecvVoice(c, text)
    \/ \E c \in MainConns, ok \in BOOLEAN, out \in ProviderOutputs : AgentReturn(c, ok, out)
    \/ \E c \in MainConns, ok \in BOOLEAN : SaveUser(c, ok)
    \/ \E c \in MainConns, ok \in BOOLEAN : SaveAssistant(c, ok)
    \/ \E c \in MainConns, ok \in BOOLEAN : SaveUsage(c, ok)
    \/ \E c \in MainConns : SendReply(c)
    \/ \E c \in MainConns : RecvPing(c)
    \/ \E c \in MainConns, kind \in UnknownTypes : RecvUnknown(c, kind)
    \/ \E c \in MainConns, valid \in BOOLEAN, force \in BOOLEAN,
          outcome \in AnalysisOutcomes, out \in AnalysisOutputs :
            RecvAnalyze(c, valid, force, outcome, out.usage)
    \/ \E c \in MainConns, outcome \in AnalysisOutcomes, out \in AnalysisOutputs :
            RecvEnd(c, outcome, out.usage)

Spec == Init /\ [][Next]_vars

\* Two connections running concurrently, with valid tokens, a working
\* database and agent, and the frames voice_input, ping and end_conversation.
PairTokens == {t \in Tokens : get_current_user_websocket(t) # None}
PairTexts == {<<"a">>}
PairRefs == {r \in ScenarioRefs : r.id \in {None, "job_interview"}}

NextPair ==
    \/ \E c \in Conns, tok \in PairTokens : Connect(c, tok, TRUE, TRUE)
    \/ \E c \in Conns : ClientDisconnect(c)
    \/ \E c \in Conns, sid \in {NoSession} \cup SessionIds, ref \in PairRefs :
            ResolveSession(c, "fr", sid, ref, TRUE, TRUE)
    \/ \E c \in Conns : RecvDisconnect(c)
    \/ \E c \in Conns, text \in PairTexts : RecvVoice(c, text)
    \/ \E c \in Conns, out \in AnalysisOutputs : AgentReturn(c, TRUE, out)
    \/ \E c \in Conns : SaveUser(c, TRUE)
    \/ \E c \in Conns : SaveAssistant(c, TRUE)
    \/ \E c \in Conns : SaveUsage(c, TRUE)
    \/ \E c \in Conns : SendReply(c)
    \/ \E c \in Conns : RecvPing(c)
    \/ \E c \in Conns : RecvEnd(c, "feedback", (CHOOSE o \in AnalysisOutputs : TRUE).usage)

SpecPair == Init /\ [][NextPair]_vars

\* One connection with a valid token and a working database: every scenario
\* reference, and stored logs of session 1 up to one message more than
\* get_session_messages returns; the loop with voice_input and ping.
LogSizes == {0, InitialLog, HistoryLimit, HistoryLimit + 1}
InitResolve == \E n \in LogSizes : InitWith(n)

NextResolve ==
    \/ \E c \in MainConns, tok \in PairTokens : Connect(c, tok, TRUE, TRUE)
    \/ \E c \in MainConns : ClientDisconnect(c)
    \/ \E c \in MainConns, lang \in Languages, sid \in {NoSession} \cup SessionIds,
          ref \in AllScenarioRefs, scok \in BOOLEAN :
            ResolveSession(c, lang, sid, ref, TRUE, scok)
    \/ \E c \in MainConns : RecvDisconnect(c)
    \/ \E c \in MainConns, text \in PairTexts : RecvVoice(c, text)
    \/ \E c \in MainConns, ok \in BOOLEAN, out \in AnalysisOutputs : AgentReturn(c, ok, out)
    \/ \E c \in MainConns : SaveUser(c, TRUE)
    \/ \E c \in MainConns : SaveAssistant(c, TRUE)
    \/ \E c \in MainConns : SaveUsage(c, TRUE)
    \/ \E c \in MainConns : SendReply(c)
    \/ \E c \in MainConns : RecvPing(c)

SpecResolve == InitResolve /\ [][NextResolve]_vars


\* ------------------------------------------------------------ properties
SessionEvents == {"session_created", "session_resumed"}
CountSessionEvents(evs) ==
    CountType(evs, "session_created") + CountType(evs, "session_resumed")
LastEvent(evs) == evs[Len(evs)]
InRegistry(c) == \E e \in active_connections : e.ws = c
\* The transport of c can still carry an event to the client.
Delivers(c) == peer[c] = "present" \/ sendMode = "drop"

\* A token that is absent, undecodable, without subject, or names no user.
InvalidToken(tok) ==
    \/ tok = NoToken
    \/ tok.sig # "ok"
    \/ tok.sub = None
    \/ tok.sub \notin Users

\* The text of a voice_input frame is empty, missing or whitespace-only.
EmptyText(frame) ==
    \/ frame.text = MissingText
    \/ \A i \in 1 .. Len(frame.text) : frame.text[i] \in Whitespace

MessagesOf(msgs, c, n) == SelectSeq(msgs, LAMBDA m : m.conn = c /\ m.turn = n)
UsageOf(recs, c, n) == SelectSeq(recs, LAMBDA r : r.conn = c /\ r.turn = n)

\* C1: whenever the handler of a connection that was registered has
\* returned, the registry holds no entry for that connection.
C1_GuaranteedCleanup ==
    \A c \in Conns : (pc[c] = "done" /\ registered[c]) => ~InRegistry(c)

\* C2: a connection opened with a missing or invalid token is closed, has
\* emitted no event, and was never entered in the registry.
C2_InvalidTokenRejected ==
    \A c \in Conns :
        (pc[c] # "idle" /\ InvalidToken(token[c])) =>
            /\ pc[c] = "done"
            /\ app_state[c] = "DISCONNECTED"
            /\ sent[c] = <<>>
            /\ ~registered[c]
            /\ active_connections = {}

C2_Witness ==
    \E c \in Conns : /\ pc[c] = "done"
                     /\ token[c] = [sig |-> "ok", sub |-> "ghost"]
                     /\ close_code[c] = 1008

C4_VoicePersistsPair ==
    [][\A c \in Conns :
          (/\ pc[c] = "send_reply"
           /\ Len(sent'[c]) = Len(sent[c]) + 1
           /\ LastEvent(sent'[c]).type = "assistant_message")
          => /\ MessagesOf(messages', c, turn[c]) =
                    <<Message(session[c], "user", user_text[c], c, turn[c]),
                      Message(session[c], "assistant", LastEvent(sent'[c]).text,
                              c, turn[c])>>
             /\ Len(UsageOf(usage', c, turn[c])) = 1
             /\ UsageOf(usage', c, turn[c])[1].session = session[c]
             /\ UsageOf(usage', c, turn[c])[1].src = "voice_input"]_vars

C4_Witness ==
    \E c \in Conns : /\ pc[c] = "recv"
                     /\ last[c].kind = "voice_input"
                     /\ sent[c] # <<>>
                     /\ LastEvent(sent[c]).type = "assistant_message"
                     /\ Len(MessagesOf(messages, c, turn[c])) = 2

\* The session of c was created by c (a fresh session).
Fresh(c) == sent[c] # <<>> /\ sent[c][1].type = "session_created"

\* C5 as stated: on a fresh session with a resolved descriptor, once a
\* voice_input has succeeded the in-memory transcript holds exactly one
\* system-role turn.
C5_Original ==
    \A c \in Conns :
        (/\ pc[c] = "recv"
         /\ Fresh(c)
         /\ scenario_context[c] # NoContext
         /\ CountType(sent[c], "assistant_message") >= 1)
        => CountRole(history_dicts[c], "system") = 1

\* C5 as amended: on a fresh session with a resolved descriptor, the history
\* handed to the agent for every voice_input is the system message followed
\* by the transcript, so it holds exactly one system-role turn, and the
\* in-memory transcript itself never holds a system-role turn.
C5_SystemTurnPerCall ==
    \A c \in Conns :
        (Fresh(c) /\ pc[c] \notin {"done"} /\ scenario_context[c] # NoContext) =>
            /\ CountRole(history_dicts[c], "system") = 0
            /\ pc[c] = "agent" =>
                  /\ CountRole(enhanced_history[c], "system") = 1
                  /\ enhanced_history[c] =
                        <<SystemMessage(scenario_context[c], language[c])>>
                            \o history_dicts[c]

C5_Witness ==
    \E c \in Conns : /\ pc[c] = "agent"
                     /\ Fresh(c)
                     /\ scenario_context[c] # NoContext
                     /\ CountType(sent[c], "assistant_message") = 1
                     /\ Len(history_dicts[c]) = 2

\* C6: once end_conversation has been taken the handler has stopped with the
\* transport closed, whatever the analysis did, and a stopped handler takes
\* no further frame.
C6_EndAlwaysCloses ==
    /\ [](\A c \in Conns :
            last[c].kind = "end_conversation" =>
                /\ pc[c] = "done"
                /\ app_state[c] = "DISCONNECTED"
                /\ exit[c] = "end_conversation")
    /\ [][\A c \in Conns :
            pc[c] = "done" => (pc'[c] = "done" /\ turn'[c] = turn[c] /\ last'[c] = last[c])]_vars

C6_Witness ==
    \E c \in Conns : /\ last[c].kind = "end_conversation"
                     /\ LastEvent(sent[c]).type = "error"
                     /\ close_code[c] = 1000
                     /\ peer[c] = "present"

\* C7: a session_id naming another principal's session, or none, gets one
\* error event and a closed connection; no history is loaded, neither
\* session_resumed nor ready is emitted, and nothing is persisted.
C7_ForeignSessionRefused ==
    \A c \in Conns :
        asked[c] \in {"missing", "foreign"} =>
            /\ pc[c] = "done"
            /\ app_state[c] = "DISCONNECTED"
            /\ history_dicts[c] = <<>>
            /\ session[c] = NoSession
            /\ \A i \in 1 .. Len(sent[c]) : sent[c][i].type = "error"
            /\ Len(sent[c]) <= 1
            /\ Delivers(c) => sent[c] = <<Ev("error")>>
            /\ \A i \in 1 .. Len(messages) : messages[i].conn # c
            /\ \A i \in 1 .. Len(usage) : usage[i].conn # c
            /\ \A s \in sessions : s.id \in InitialSessions
            /\ feedbacks = {}
            /\ turn[c] = 0

C7_Witness ==
    \E c \in Conns : /\ asked[c] = "foreign"
                     /\ sent[c] = <<Ev("error")>>
                     /\ close_code[c] = 1008

\* C8: a ping leaves sessions, messages, usage records and feedback as they
\* are; on a transport that still delivers it adds exactly one pong to the
\* events and leaves the transcript, the registry and the loop as they are.
C8_PingOnlyPongs ==
    [][\A c \in Conns :
          (turn'[c] = turn[c] + 1 /\ last'[c].kind = "ping") =>
              /\ UNCHANGED <<sessions, messages, usage, feedbacks>>
              /\ Delivers(c) =>
                    /\ sent'[c] = Append(sent[c], Ev("pong"))
                    /\ history_dicts'[c] = history_dicts[c]
                    /\ active_connections' = active_connections
                    /\ pc'[c] = "recv"
                    /\ app_state'[c] = app_state[c]]_vars

C8_Witness ==
    \E c \in Conns : /\ last[c].kind = "ping"
                     /\ CountType(sent[c], "pong") = 2
                     /\ pc[c] = "recv"

\* C9: a voice_input whose text is empty, missing or whitespace-only changes
\* no collection, no transcript and no event list, does not reach the agent,
\* and leaves the handler at the receive-wait.
C9_EmptyVoiceIgnored ==
    [][\A c \in Conns :
          (turn'[c] = turn[c] + 1 /\ last'[c].kind = "voice_input" /\ EmptyText(last'[c])) =>
              /\ UNCHANGED <<sessions, messages, usage, feedbacks, active_connections>>
              /\ sent'[c] = sent[c]
              /\ history_dicts'[c] = history_dicts[c]
              /\ app_state'[c] = app_state[c]
              /\ pc'[c] = "recv"]_vars

C9_Witness ==
    \E c \in Conns : /\ last[c] = Frame("voice_input", <<" ">>)
                     /\ turn[c] = 2
                     /\ pc[c] = "recv"

\* C10: the registry never holds two entries for one principal; when a
\* connection registers, the principal's entry becomes its handle, and no
\* other connection's transport or handler is touched.
C10_OneEntryPerPrincipal ==
    /\ [](\A e1, e2 \in active_connections : e1.user_id = e2.user_id => e1 = e2)
    /\ [][\A c \in Conns :
            (~registered[c] /\ registered'[c]) =>
                /\ [user_id |-> user'[c], ws |-> c] \in active_connections'
                /\ \A d \in Conns \ {c} :
                      /\ app_state'[d] = app_state[d]
                      /\ close_code'[d] = close_code[d]
                      /\ pc'[d] = pc[d]]_vars

C10_Witness ==
    /\ registered[1] /\ registered[2]
    /\ user[1] = user[2]
    /\ active_connections = {[user_id |-> user[2], ws |-> 2]}
    /\ pc[1] = "recv"
    /\ app_state[1] = "CONNECTED"


\* The loop of c takes a frame in this step.
Takes(c) == turn'[c] = turn[c] + 1

\* C11: an event of unknown type changes no session, message, usage record
\* or transcript and leaves the handler at the receive-wait; on a transport
\* that still delivers it adds exactly one error event, which names the
\* type, and the transport stays open.
C11_UnknownTypeRejected ==
    [][\A c \in Conns :
          (Takes(c) /\ last'[c].kind \in UnknownTypes) =>
              /\ UNCHANGED <<sessions, messages, usage, feedbacks, active_connections>>
              /\ history_dicts'[c] = history_dicts[c]
              /\ pc'[c] = "recv"
              /\ Delivers(c) =>
                    /\ Len(sent'[c]) = Len(sent[c]) + 1
                    /\ SubSeq(sent'[c], 1, Len(sent[c])) = sent[c]
                    /\ LastEvent(sent'[c]).type = "error"
                    /\ LastEvent(LastEvent(sent'[c]).text) = last'[c].kind
                    /\ app_state'[c] = "CONNECTED"]_vars

C11_Witness ==
    \E c \in Conns : /\ last[c].kind \in UnknownTypes
                     /\ turn[c] = 2
                     /\ pc[c] = "recv"
                     /\ app_state[c] = "CONNECTED"
                     /\ CountType(sent[c], "error") = 1
                     /\ LastEvent(sent[c]) = UnknownTypeEv(last[c].kind)

\* C12: a text frame that is invalid JSON, or valid JSON that is no object
\* or has no type field, leaves the handler at the receive-wait, and on a
\* transport that still delivers it adds one error event and the transport
\* stays open.
C12_MalformedNonFatal ==
    [][\A c \in Conns :
          (Takes(c) /\ last'[c].kind \in {"invalid_json", "non_object", "no_type"}) =>
              /\ pc'[c] = "recv"
              /\ Delivers(c) =>
                    /\ sent'[c] = Append(sent[c], Ev("error"))
                    /\ app_state'[c] = "CONNECTED"]_vars

\* C13: the step in which the agent call of a voice_input fails stores no
\* message and no usage record, leaves the transcript as it was and the
\* handler at the receive-wait; on a transport that still delivers it adds
\* exactly one error event and the transport stays open.
C13_AgentFailureNonFatal ==
    [][\A c \in Conns :
          (pc[c] = "agent" /\ pc'[c] # "agent" /\ pc'[c] # "save_user") =>
              /\ UNCHANGED <<sessions, messages, usage, feedbacks>>
              /\ history_dicts'[c] = history_dicts[c]
              /\ pc'[c] = "recv"
              /\ MessagesOf(messages', c, turn[c]) = <<>>
              /\ UsageOf(usage', c, turn[c]) = <<>>
              /\ Delivers(c) =>
                    /\ sent'[c] = Append(sent[c], Ev("error"))
                    /\ app_state'[c] = "CONNECTED"]_vars

C13_Witness ==
    \E c \in Conns : /\ pc[c] = "recv"
                     /\ turn[c] = 2
                     /\ Len(sent[c]) = 4
                     /\ sent[c][3] = Ev("error")
                     /\ sent[c][4].type = "assistant_message"
                     /\ Len(MessagesOf(messages, c, 1)) = 0
                     /\ Len(MessagesOf(messages, c, 2)) = 2


\* C14: while the agent call of a voice_input is in flight, and after it
\* has failed, the user Message of that input is in the persisted log.
C14_UserMessageBeforeAgent ==
    /\ [](\A c \in Conns :
            pc[c] = "agent" =>
                MessagesOf(messages, c, turn[c]) =
                    <<Message(session[c], "user", user_text[c], c, turn[c])>>)
    /\ [][\A c \in Conns :
            (pc[c] = "agent" /\ pc'[c] = "recv") =>
                MessagesOf(messages', c, turn[c]) =
                    <<Message(session[c], "user", user_text[c], c, turn[c])>>]_vars

\* C15: a receive timeout changes no persisted data, no transcript and no
\* registry entry; if the keepalive can be sent, exactly that one event is
\* added and the handler stays at the receive-wait; if sending it fails,
\* nothing is emitted and the handler leaves the loop for good.
C15_KeepaliveOrLeave ==
    /\ [][\A c \in Conns :
            (Takes(c) /\ last'[c].kind = "timeout") =>
                /\ UNCHANGED <<sessions, messages, usage, feedbacks, active_connections>>
                /\ \/ /\ sent'[c] = Append(sent[c], Ev("keepalive"))
                      /\ pc'[c] = "recv"
                      /\ history_dicts'[c] = history_dicts[c]
                      /\ app_state'[c] = app_state[c]
                   \/ /\ ~Delivers(c) \/ app_state[c] # "CONNECTED"
                      /\ sent'[c] = sent[c]
                      /\ pc'[c] = "done"
                      /\ exit'[c] = "keepalive_failed"
                /\ Delivers(c) => pc'[c] = "recv"]_vars
    /\ [][\A c \in Conns :
            exit[c] = "keepalive_failed" =>
                /\ pc'[c] = "done"
                /\ turn'[c] = turn[c]
                /\ sent'[c] = sent[c]
                /\ UNCHANGED <<messages, usage>>]_vars

C15_Witness ==
    \E c \in Conns : /\ exit[c] = "keepalive_failed"
                     /\ turn[c] = 2
                     /\ LastEvent(sent[c]) = Ev("keepalive")
                     /\ peer[c] = "gone"

\* C16: an analyze_conversation event leaves the handler at the receive-wait
\* with the Message log and the transcript as they were, and on a transport
\* that still delivers it adds exactly one event, analysis or error, and
\* the transport stays open.
C16_AnalyzeNeverEnds ==
    [][\A c \in Conns :
          (Takes(c) /\ last'[c].kind = "analyze_conversation") =>
              /\ pc'[c] = "recv"
              /\ UNCHANGED <<sessions, messages>>
              /\ history_dicts'[c] = history_dicts[c]
              /\ Delivers(c) =>
                    /\ Len(sent'[c]) = Len(sent[c]) + 1
                    /\ LastEvent(sent'[c]).type \in {"analysis", "error"}
                    /\ app_state'[c] = "CONNECTED"]_vars


\* The handler of c is in the active loop.
InLoop(c) == pc[c] \notin {"idle", "session", "done"}

\* What a scenario reference names, for principal u.
OwnedBy(ref, u) ==
    \/ ref.type = "meeting" /\ ref.id \in DOMAIN MeetingAnalyses /\ MeetingAnalyses[ref.id] = u
    \/ ref.type = "custom" /\ ref.id \in DOMAIN PracticeScenarios /\ PracticeScenarios[ref.id] = u
Resolvable(ref, u) ==
    \/ ref.type = "predefined" /\ ref.id \in DOMAIN PredefinedScenarios
    \/ OwnedBy(ref, u)
Requested(ref) == ref.id # None /\ ref.type # None

GenericCustom == [title |-> "Custom Scenario", role |-> "conversation partner",
                  summary |-> "custom practice scenario"]

\* C17 as stated: in the active loop, a reference that is unknown, not found
\* or owned by a different principal has resolved to no descriptor.
C17_Original ==
    \A c \in Conns :
        (InLoop(c) /\ Requested(scenario_ref[c]) /\ ~Resolvable(scenario_ref[c], user[c])) =>
            scenario_context[c] = NoContext

\* C17 as amended: in the active loop, an unknown predefined reference, a
\* meeting reference not found or of another principal, and a reference of
\* any other type but custom have resolved to no descriptor; a custom
\* reference not found or of another principal has resolved to the generic
\* "Custom Scenario" descriptor, or to none when the lookup raised; a
\* descriptor taken from a stored record is the principal's own.
C17_ScenarioDegrades ==
    \A c \in Conns :
        InLoop(c) =>
            LET ref == scenario_ref[c]
                ctx == scenario_context[c]
            IN  /\ ~Requested(ref) => ctx = NoContext
                /\ (Requested(ref) /\ ~Resolvable(ref, user[c])) =>
                      IF ref.type = "custom"
                      THEN ctx \in {GenericCustom, NoContext}
                      ELSE ctx = NoContext
                /\ (ref.type = "predefined" /\ Resolvable(ref, user[c])) =>
                      ctx = PredefinedScenarios[ref.id]
                /\ (ctx # NoContext /\ ctx # GenericCustom /\ ref.type # "predefined") =>
                      (OwnedBy(ref, user[c]) /\ ctx.title = ref.id)

C17_Witness ==
    \E c \in Conns : /\ pc[c] = "recv"
                     /\ user[c] = "u1"
                     /\ scenario_ref[c] = [id |-> "custom_p2", type |-> "custom"]
                     /\ scenario_context[c] = GenericCustom
                     /\ CountType(sent[c], "assistant_message") = 1


\* C18: every session created by a connection has the connection's language
\* in its metadata, and has the resolved descriptor embedded exactly when
\* one was resolved.
C18_LanguageInMetadata ==
    \A c \in Conns :
        (InLoop(c) /\ asked[c] = "none") =>
            LET meta == SessionDoc(session[c]).metadata
                ctx == scenario_context[c]
            IN  /\ meta.language = language[c]
                /\ (ctx = NoContext) = (meta.scenario = NoScenarioMeta)
                /\ ctx # NoContext =>
                      /\ meta.scenario.id = scenario_ref[c].id
                      /\ meta.scenario.type = scenario_ref[c].type
                      /\ meta.scenario.title = ctx.title
                      /\ meta.scenario.role = ctx.role


\* The persisted messages of session sid, in timestamp order.
PersistedLog(sid) == SelectSeq(messages, LAMBDA m : m.session = sid)

\* C19: when the handler of a resumed session enters the active loop, its
\* transcript is the whole persisted log of the session, turn by turn.
C19_FullHistoryLoaded ==
    \A c \in Conns :
        (pc[c] = "recv" /\ turn[c] = 0 /\ asked[c] = "own") =>
            /\ Len(history_dicts[c]) = Len(PersistedLog(session[c]))
            /\ \A i \in 1 .. Len(history_dicts[c]) :
                  /\ history_dicts[c][i].role = PersistedLog(session[c])[i].role
                  /\ history_dicts[c][i].content = PersistedLog(session[c])[i].content


\* C20: once the client has gone while the agent call of a voice_input is in
\* flight, no Message and no Usage Record is stored for that input, and the
\* handler's next step takes it out of the loop.
C20_LateResultDiscarded ==
    [][\A c \in Conns :
          (/\ peer[c] = "gone"
           /\ pc[c] \in {"agent", "save_user", "save_assistant", "save_usage"}
           /\ pc'[c] # pc[c])
          => /\ UNCHANGED <<messages, usage>>
             /\ pc'[c] = "done"]_vars


\* C21: a connection whose token decodes to a principal that is not active
\* is closed, is never entered in the registry, and neither creates nor
\* resumes a session.
C21_InactivePrincipalRejected ==
    \A c \in Conns :
        (/\ pc[c] # "idle"
         /\ token[c].sig = "ok"
         /\ token[c].sub \in Users \ ActiveUsers)
        => /\ pc[c] = "done"
           /\ app_state[c] = "DISCONNECTED"
           /\ ~registered[c]
           /\ ~InRegistry(c)
           /\ session[c] = NoSession
           /\ CountSessionEvents(sent[c]) = 0

C23_AgentPureOrchestration ==
    [][\A c \in Conns :
          /\ (pc[c] # "agent" /\ pc'[c] = "agent")
             => /\ Takes(c)
                /\ agent_messages'[c] =
                       enhanced_history'[c]
                       \o <<[role |-> "user", content |-> user_text'[c]]>>
          /\ (pc[c] = "agent" /\ pc'[c] = "agent")
             => agent_messages'[c] = agent_messages[c]
          /\ (pc[c] = "agent" /\ pc'[c] # "agent")
             => /\ ~Takes(c)
                /\ agent_messages'[c] = <<>>
                /\ UNCHANGED <<sessions, messages, usage, feedbacks>>
                /\ \/ /\ pc'[c] = "save_user"
                      /\ \E o \in ProviderOutputs :
                            result'[c] = [content |-> o.content, usage |-> o.usage,
                                          model |-> o.model]
                   \/ /\ pc'[c] = "recv"
                      /\ result'[c] = NoResult
                      /\ history_dicts'[c] = history_dicts[c]
          /\ (pc[c] # "agent" /\ pc'[c] # "agent") => agent_messages'[c] = <<>>
      ]_vars

C23_Witness ==
    \E c \in Conns :
        /\ pc[c] = "save_user"
        /\ Len(enhanced_history[c]) > 0
        /\ result[c].content = <<"r2">>
        /\ result[c].usage.total_tokens = 3
        /\ result[c].model = "gpt"

\* C24: closing is idempotent: on no path, end_conversation and the
\* fatal-error path included, does a close on an already closed transport
\* raise out of websocket_conversation_endpoint.
C24_CloseNeverRaisesOut ==
    \A c \in Conns : ~raised[c]

\* C25: a connection ended by an exception that escaped the per-iteration
\* handling of the loop, or raised during session resolution, is closed with
\* the internal-error code 1011, not with the normal code 1000 of
\* end_conversation nor the policy-violation code 1008.
C25_FatalClosesInternalError ==
    \A c \in Conns :
        (pc[c] = "done" /\ exit[c] \in {"malformed_event", "db_error"})
        => close_code[c] = 1011

\* C26: on a resumed session the scenario system message handed to the agent
\* comes from the descriptor stored in the session's metadata: there is none
\* when the session has no descriptor, and otherwise it carries the stored
\* role and description, whatever scenario reference the resume supplies.
C26_ResumeUsesStoredDescriptor ==
    \A c \in Conns :
        (pc[c] = "agent" /\ asked[c] = "own" /\ CountRole(history_dicts[c], "system") = 0)
        => LET stored == SessionDoc(session[c]).metadata.scenario
           IN  IF stored = NoScenarioMeta
               THEN CountRole(agent_messages[c], "system") = 0
               ELSE /\ CountRole(agent_messages[c], "system") = 1
                    /\ agent_messages[c][1].role = "system"
                    /\ agent_messages[c][1].content[2] = stored.role
                    /\ agent_messages[c][1].content[3] = stored.description

\* C27: the registry entry of a connection that stays live is removed only
\* by a newer registration of its principal: the end of another (older)
\* connection of the principal leaves it in place, so the last connection to
\* register for a principal is in the registry for as long as it is live.
C27_NewerEntryKept ==
    [][\A c \in Conns :
          (/\ InLoop(c)
           /\ pc'[c] = pc[c]
           /\ [user_id |-> user[c], ws |-> c] \in active_connections)
          => \/ [user_id |-> user[c], ws |-> c] \in active_connections'
             \/ \E d \in Conns \ {c} :
                   ~registered[d] /\ registered'[d] /\ user'[d] = user[c]
      ]_vars

\* The role/content projection of a sequence of Messages.
Projection(log) == [i \in 1..Len(log) |-> [role |-> log[i].role, content |-> log[i].content]]

\* The Messages of a log without those of inputs whose persistence failed
\* part-way: the stored ones, and those of inputs with both Messages.
CompleteTurns(log) ==
    SelectSeq(log, LAMBDA m : m.conn = 0 \/ Len(MessagesOf(messages, m.conn, m.turn)) = 2)

\* C28 as first stated: at every receive-wait the in-memory transcript is the
\* projection of the session's persisted log, also after a voice_input whose
\* user Message was inserted and whose assistant Message was not.
C28_Original ==
    \A c \in Conns :
        pc[c] = "recv" => history_dicts[c] = Projection(PersistedLog(session[c]))

\* C28: at every receive-wait the in-memory transcript is the projection of
\* the persisted log without the user Messages of inputs whose assistant
\* Message was not inserted; such a user Message stays in the log and is
\* not in the transcript.
C28_TranscriptIsCompleteTurns ==
    \A c \in Conns :
        pc[c] = "recv"
        => history_dicts[c] = Projection(CompleteTurns(PersistedLog(session[c])))

C28_Witness ==
    \E c \in Conns :
        /\ pc[c] = "recv"
        /\ \E n \in 1..MaxFrames :
              /\ Len(MessagesOf(messages, c, n)) = 1
              /\ MessagesOf(messages, c, n)[1].role = "user"
        /\ \E n \in 1..MaxFrames : Len(MessagesOf(messages, c, n)) = 2
        /\ Len(PersistedLog(session[c])) = Len(history_dicts[c]) + 1

\* C29 as first stated: in every session's persisted log each assistant
\* Message directly follows the user Message it answers, also when two
\* connections handle inputs for the session at the same time.
C29_Original ==
    \A sd \in sessions :
        LET log == PersistedLog(sd.id)
        IN  \A i \in 1..Len(log) :
                log[i].role = "assistant"
                => /\ i > 1
                   /\ log[i - 1].role = "user"
                   /\ log[i - 1].conn = log[i].conn
                   /\ log[i - 1].turn = log[i].turn

\* C29: in every session's persisted log each assistant Message written by a
\* connection comes after, not necessarily directly after, the one user
\* Message of the input it answers, and no input has two Messages of one
\* role; Messages of another connection's input may lie between the two.
C29_AssistantAfterItsUser ==
    \A sd \in sessions :
        LET log == PersistedLog(sd.id)
        IN  /\ \A i \in 1..Len(log) :
                  (log[i].role = "assistant" /\ log[i].conn # 0)
                  => \E j \in 1..(i - 1) :
                        /\ log[j].role = "user"
                        /\ log[j].conn = log[i].conn
                        /\ log[j].turn = log[i].turn
            /\ \A i, j \in 1..Len(log) :
                  (/\ log[i].conn # 0
                   /\ log[i].conn = log[j].conn
                   /\ log[i].turn = log[j].turn
                   /\ log[i].role = log[j].role)
                  => i = j

C29_Witness ==
    \E sd \in sessions :
        LET log == PersistedLog(sd.id)
        IN  \E i \in 2..Len(log) :
                /\ log[i].role = "assistant"
                /\ log[i - 1].role = "user"
                /\ log[i - 1].conn # 0
                /\ log[i - 1].conn # log[i].conn
                /\ \E j \in 1..(i - 2) :
                      log[j].role = "user" /\ log[j].conn = log[i].conn

\* The handler of c is back at the receive-wait after a voice_input whose
\* user and assistant Messages were both persisted, and the client is reached.
BothPersisted(c) ==
    /\ pc[c] = "recv"
    /\ last[c].kind = "voice_input"
    /\ Len(MessagesOf(messages, c, turn[c])) = 2
    /\ app_state[c] = "CONNECTED"
    /\ peer[c] = "present"

\* C30 as first stated: after a voice_input whose two Messages were persisted
\* the client, while connected, has received the assistant_message event with
\* the persisted text, and no error event for that input.
C30_Original ==
    \A c \in Conns :
        BothPersisted(c)
        => LastEvent(sent[c]) = AssistantEv(MessagesOf(messages, c, turn[c])[2].content)

\* C30: after a voice_input whose two Messages were persisted the client,
\* while connected, has received the assistant_message event with the
\* persisted text when the usage record was stored too, and an error event
\* and no assistant_message event when the usage record's insert failed.
C30_ReplyIffUsageStored ==
    \A c \in Conns :
        BothPersisted(c)
        => IF Len(UsageOf(usage, c, turn[c])) = 1
           THEN LastEvent(sent[c]) = AssistantEv(MessagesOf(messages, c, turn[c])[2].content)
           ELSE /\ Len(UsageOf(usage, c, turn[c])) = 0
                /\ LastEvent(sent[c]) = Ev("error")

C30_Witness ==
    \E c \in Conns :
        /\ BothPersisted(c)
        /\ Len(UsageOf(usage, c, turn[c])) = 0
        /\ LastEvent(sent[c]) = Ev("error")
        /\ Len(history_dicts[c]) >= 2
        /\ history_dicts[c][Len(history_dicts[c])].role = "assistant"

====
